---- MODULE Spec2Model ----
(***************************************************************************)
(* Payroll tracker (src/payroll_tracker_gui.py): the commission formula,   *)
(* the employee list and its CSV table, the per-employee invoice, archive  *)
(* and payment-history files, and the dialogs that mutate them.            *)
(*                                                                         *)
(* Money is counted in half cents (200 units per dollar): amounts typed by *)
(* the user are whole cents (even numbers of units), so the halving in the *)
(* commission formula is exact.  Float representation error below half a   *)
(* cent is not modelled.                                                   *)
(***************************************************************************)
EXTENDS Integers, Sequences, FiniteSets, TLC

VARIABLES
    heap,            \* address -> Employee object (the Python objects)
    employees,       \* self.employees: sequence of addresses
    employees_csv,   \* employees.csv: [exists, rows]
    invoice_files,   \* invoices/<safe_name>_<id>.csv: filename -> rows
    archived_files,  \* archived_invoices/..._week_<date>.csv: filename -> rows
    payment_files,   \* payment_history/..._payments.csv: filename -> rows
    view,            \* right panel showing view_employee_invoices(emp)
    add_dlg,         \* an open add_invoice_dialog
    edit_dlg,        \* an open edit_invoice_dialog
    date_dlg,        \* process_closeout between opening its modal payment-date
                     \* dialog and its return: emp, result['date'], position
    emp_dlg,         \* an open edit-employee dialog (edit_selected)
    steps,           \* number of handlers run so far that wrote a file
    invoice          \* the Invoice object last constructed (formula checks)

vars == <<heap, employees, employees_csv, invoice_files, archived_files,
          payment_files, view, add_dlg, edit_dlg, date_dlg, emp_dlg, steps, invoice>>

----------------------------------------------------------------------------
(* Bounds *)

\* handlers that write a file, per behaviour
MaxSteps == 2

----------------------------------------------------------------------------
(* Money *)

Dollars(n) == n * 200
CentsAmt(n) == n * 2

\* f"{x:.2f}": the two-decimal strings x can be formatted to, as amounts.
\* A whole-cent amount formats to itself; an amount ending in half a cent is
\* not representable in binary and goes up or down with its approximation.
Fmt2(x) == IF x % 2 = 0 THEN {x} ELSE {x - 1, x + 1}

max0(x) == IF x > 0 THEN x ELSE 0

----------------------------------------------------------------------------
(* Invoice: the commission formula *)

calculate_commission_static_low34(credit_card_used, total, tip, materials, fees) ==
    IF credit_card_used
    THEN ((total - materials - fees) \div 2) + tip
    ELSE IF materials <= Dollars(35)
         THEN ((total - fees) \div 2) + tip
         ELSE ((total - materials - fees) \div 2) + tip + materials

calculate_commission_static_cc_addback(credit_card_used, total, tip, materials, fees) ==
    IF credit_card_used /\ materials < Dollars(35)
    THEN ((total - materials - fees) \div 2) + tip
    ELSE IF materials < Dollars(35)
         THEN ((total - fees) \div 2) + tip
         ELSE ((total - materials - fees) \div 2) + tip + materials

calculate_commission_static_sub_low(credit_card_used, total, tip, materials, fees) ==
    IF credit_card_used
    THEN ((total - materials - fees) \div 2) + tip
    ELSE IF materials < Dollars(35)
         THEN ((total - materials - fees) \div 2) + tip
         ELSE ((total - materials - fees) \div 2) + tip + materials

calculate_commission_static(credit_card_used, total, tip, materials, fees) ==
    IF credit_card_used
    THEN ((total - materials - fees) \div 2) + tip
    ELSE IF materials < Dollars(35)
         THEN ((total - fees) \div 2) + tip
         ELSE ((total - materials - fees) \div 2) + tip + materials

\* Invoice.__init__: the object with its derived commission
Invoice(number, customer, date, status, credit_card_used, total, tip, materials, fees) ==
    [number |-> number, customer |-> customer, date |-> date, status |-> status,
     credit_card_used |-> credit_card_used, total |-> total, tip |-> tip,
     materials |-> materials, fees |-> fees,
     commission |-> calculate_commission_static(credit_card_used, total, tip,
                                                materials, fees)]

NoInvoice == Invoice("", "", "", "", FALSE, 0, 0, 0, 0)

----------------------------------------------------------------------------
(* Strings: names and dates are sequences of characters / tokens *)

RECURSIVE lstrip(_)
lstrip(s) == IF s # <<>> /\ Head(s) = " " THEN lstrip(Tail(s)) ELSE s

RECURSIVE rstrip(_)
rstrip(s) ==
    IF s # <<>> /\ s[Len(s)] = " " THEN rstrip(SubSeq(s, 1, Len(s) - 1)) ELSE s

strip(s) == rstrip(lstrip(s))

lower_char(c) ==
    IF c = "A" THEN "a" ELSE IF c = "B" THEN "b" ELSE IF c = "O" THEN "o" ELSE c

lower(s) == [i \in DOMAIN s |-> lower_char(s[i])]

replace(s, old, new) == [i \in DOMAIN s |-> IF s[i] = old THEN new ELSE s[i]]

strptime_ok_any(d) == TRUE

\* datetime.strptime(payment_date, "%m/%d/%Y") succeeds
strptime_ok(d) ==
    /\ Len(d) = 5
    /\ d[1] \in {"01", "02", "03", "04", "05", "06", "07", "08", "09", "10", "11", "12"}
    /\ d[2] = "/"
    /\ d[3] \in {"01", "02", "09", "16", "23", "28"}
    /\ d[4] = "/"
    /\ d[5] \in {"2025", "2026"}

----------------------------------------------------------------------------
(* Employee *)

Employee(emp_id, name, weekly_pay, year_to_date_pay) ==
    [id |-> emp_id, name |-> name, weekly_pay |-> max0(weekly_pay),
     year_to_date_pay |-> max0(year_to_date_pay)]

safe_name(emp) == replace(lower(strip(emp.name)), " ", "_")

get_invoice_filename(emp) == <<safe_name(emp), emp.id>>

get_archived_invoice_filename(emp, date_str) ==
    <<safe_name(emp), emp.id, replace(date_str, "/", "-")>>

get_payment_history_filename(emp) == <<safe_name(emp), emp.id>>

add_weekly_pay_assign(emp, amount) == [emp EXCEPT !.year_to_date_pay = amount]

\* Employee.add_weekly_pay: adds to year-to-date pay
add_weekly_pay(emp, amount) ==
    [emp EXCEPT !.year_to_date_pay = emp.year_to_date_pay + amount]

edit_pay_keep(emp, new_weekly_pay) == emp

\* Employee.edit_pay
edit_pay(emp, new_weekly_pay) == [emp EXCEPT !.weekly_pay = max0(new_weekly_pay)]

----------------------------------------------------------------------------
(* The employee list and employees.csv *)

NoFile == [exists |-> FALSE, rows |-> <<>>]

\* find_employee: the first object of self.employees with that id, 0 for None
find_employee(h, L, emp_id) ==
    IF \E i \in DOMAIN L : h[L[i]].id = emp_id
    THEN L[CHOOSE i \in DOMAIN L :
               /\ h[L[i]].id = emp_id
               /\ \A j \in 1..(i - 1) : h[L[j]].id # emp_id]
    ELSE 0

load_employees_reuse(h, csv) ==
    LET n == IF csv.exists THEN Len(csv.rows) ELSE 0
    IN  [heap |-> [i \in DOMAIN h |->
                      IF i <= n
                      THEN Employee(csv.rows[i].id, strip(csv.rows[i].name),
                                    csv.rows[i].weekly_pay, csv.rows[i].year_to_date_pay)
                      ELSE h[i]],
         employees |-> [i \in 1..n |-> i]]

\* load_employees: the list is cleared and refilled with NEW objects built
\* from the rows of employees.csv; objects held elsewhere stay in the heap.
load_employees(h, csv) ==
    LET n == IF csv.exists THEN Len(csv.rows) ELSE 0
        fresh == [i \in 1..n |->
                     Employee(csv.rows[i].id, strip(csv.rows[i].name),
                              csv.rows[i].weekly_pay, csv.rows[i].year_to_date_pay)]
    IN  [heap |-> h \o fresh, employees |-> [i \in 1..n |-> Len(h) + i]]

\* the rows one employee can be written as
EmployeeRows(e) ==
    {[id |-> e.id, name |-> e.name, weekly_pay |-> w, year_to_date_pay |-> y] :
        w \in Fmt2(e.weekly_pay), y \in Fmt2(e.year_to_date_pay)}

RECURSIVE EmployeeTable(_, _)
EmployeeTable(h, L) ==
    IF L = <<>> THEN {<<>>}
    ELSE {<<r>> \o t : r \in EmployeeRows(h[Head(L)]), t \in EmployeeTable(h, Tail(L))}

\* save_employees: the contents employees.csv can be rewritten to
save_employees(h, L) == {[exists |-> TRUE, rows |-> r] : r \in EmployeeTable(h, L)}

----------------------------------------------------------------------------
(* Object identity.  Addresses are not observable in the program, so after  *)
(* every handler the heap is renumbered: the objects of self.employees in   *)
(* list order, then the objects only a panel or dialog still holds.  Of an  *)
(* object that has left self.employees only id and name are ever read again *)
(* (for the file names; weekly_pay is only added to), so its pay fields     *)
(* are dropped.                                                             *)

RECURSIVE Dedup(_, _)
Dedup(s, seen) ==
    IF s = <<>> THEN <<>>
    ELSE IF Head(s) = 0 \/ Head(s) \in seen THEN Dedup(Tail(s), seen)
    ELSE <<Head(s)>> \o Dedup(Tail(s), seen \cup {Head(s)})

Roots(L, v, a, e, d, m) == Dedup(L \o <<v.emp, a.emp, e.emp, d.emp, m.emp>>, {})

Renumber(roots, addr) ==
    IF addr = 0 THEN 0 ELSE CHOOSE i \in DOMAIN roots : roots[i] = addr

\* the heap, list, panel and dialogs a handler leaves behind
Commit(h, L, v, a, e, d, m) ==
    LET roots == Roots(L, v, a, e, d, m)
    IN  /\ heap' = [i \in DOMAIN roots |->
                       IF \E j \in DOMAIN L : L[j] = roots[i]
                       THEN h[roots[i]]
                       ELSE [h[roots[i]] EXCEPT !.weekly_pay = 0,
                                                !.year_to_date_pay = 0]]
        /\ employees' = [i \in DOMAIN L |-> Renumber(roots, L[i])]
        /\ view' = [v EXCEPT !.emp = Renumber(roots, v.emp)]
        /\ add_dlg' = [a EXCEPT !.emp = Renumber(roots, a.emp)]
        /\ edit_dlg' = [e EXCEPT !.emp = Renumber(roots, e.emp)]
        /\ date_dlg' = [d EXCEPT !.emp = Renumber(roots, d.emp)]
        /\ emp_dlg' = [m EXCEPT !.emp = Renumber(roots, m.emp)]

NoView == [open |-> FALSE, emp |-> 0, invoice_data |-> <<>>]
NoRow == [number |-> "", customer |-> "", date |-> "", status |-> "",
          total |-> 0, tip |-> 0, materials |-> 0, fees |-> 0, commission |-> 0]
NoAddDlg == [open |-> FALSE, emp |-> 0]
NoEditDlg == [open |-> FALSE, emp |-> 0, invoice_row |-> NoRow]
NoDateDlg == [open |-> FALSE, emp |-> 0, pc |-> "idle", date |-> <<>>]
NoEmpDlg == [open |-> FALSE, emp |-> 0]

----------------------------------------------------------------------------
(* Files: a directory is a function from the names of its files to rows *)

NoFiles == [f \in {} |-> <<>>]

WriteFile(files, fn, rows) ==
    [f \in DOMAIN files \cup {fn} |-> IF f = fn THEN rows ELSE files[f]]

ReadFile(files, fn) == IF fn \in DOMAIN files THEN files[fn] ELSE <<>>

\* os.rename(old, new) where new does not exist or is replaced
RenameFile(files, old, new) ==
    [f \in (DOMAIN files \ {old}) \cup {new} |->
        IF f = new THEN files[old] ELSE files[f]]

\* what os.rename(old, new) can do: an existing destination is replaced on
\* POSIX and raises FileExistsError on Windows
RenameOutcomes(files, old, new) ==
    IF new \in DOMAIN files THEN {"replaced", "FileExistsError"} ELSE {"renamed"}

\* the rows writer.writerow([number, ..., f"{total:.2f}", ..., f"{commission:.2f}"])
\* can write
InvoiceRows(number, customer, date, status, total, tip, materials, fees, commission) ==
    {[number |-> number, customer |-> customer, date |-> date, status |-> status,
      total |-> t, tip |-> p, materials |-> m, fees |-> f, commission |-> c] :
        t \in Fmt2(total), p \in Fmt2(tip), m \in Fmt2(materials),
        f \in Fmt2(fees), c \in Fmt2(commission)}

\* the first row of invoice_data carrying that invoice number
FirstRow(invoice_data, number) ==
    invoice_data[CHOOSE k \in DOMAIN invoice_data :
                     /\ invoice_data[k].number = number
                     /\ \A j \in 1..(k - 1) : invoice_data[j].number # number]

\* view_employee_invoices(emp): the invoice list panel, or a bare message
\* when the employee's file does not exist
view_employee_invoices(h, emp, files) ==
    IF get_invoice_filename(h[emp]) \in DOMAIN files
    THEN [open |-> TRUE, emp |-> emp,
          invoice_data |-> files[get_invoice_filename(h[emp])]]
    ELSE NoView

\* self.save_employees(); self.load_employees(), then the panel and dialogs
\* the handler leaves
SaveAndLoad(h, L, v, a, e, d, m) ==
    \E csv \in save_employees(h, L) :
        /\ employees_csv' = csv
        /\ LET ld == load_employees(h, csv)
           IN  Commit(ld.heap, ld.employees, v, a, e, d, m)

----------------------------------------------------------------------------
(* Close-out helpers *)

\* record_payment: the payment-history directory after appending one record
record_payment_overwrite(emp, amount, payment_date, pay) ==
    {WriteFile(pay, get_payment_history_filename(emp),
               <<[date |-> payment_date, amount |-> a]>>) : a \in Fmt2(amount)}

record_payment(emp, amount, payment_date, pay) ==
    {WriteFile(pay, get_payment_history_filename(emp),
               Append(ReadFile(pay, get_payment_history_filename(emp)),
                      [date |-> payment_date, amount |-> a])) : a \in Fmt2(amount)}

\* get_last_payment_date: the date of the last record of the employee's
\* payment history, "Never Paid" without the file or without records (a
\* string of one token, dates being sequences of tokens)
get_last_payment_date(emp, pay) ==
    IF get_payment_history_filename(emp) \notin DOMAIN pay
    THEN <<"Never Paid">>
    ELSE IF pay[get_payment_history_filename(emp)] # <<>>
         THEN pay[get_payment_history_filename(emp)]
                  [Len(pay[get_payment_history_filename(emp)])].date
         ELSE <<"Never Paid">>

\* view_ytd: the rows of the year-to-date report
view_ytd(h, L, pay) ==
    [i \in DOMAIN L |->
        [id |-> h[L[i]].id, name |-> h[L[i]].name,
         year_to_date_pay |-> h[L[i]].year_to_date_pay,
         paid_on |-> get_last_payment_date(h[L[i]], pay)]]

\* archive_invoices: copy the active file to the dated archive, then rewrite
\* the active file with the header only
archive_invoices_no_clear(emp, payment_date, inv, arch) ==
    IF get_invoice_filename(emp) \notin DOMAIN inv
    THEN [invoice_files |-> inv, archived_files |-> arch]
    ELSE [invoice_files |-> inv,
          archived_files |->
              WriteFile(arch,
                        get_archived_invoice_filename(emp, replace(payment_date, "/", "-")),
                        inv[get_invoice_filename(emp)])]

archive_invoices(emp, payment_date, inv, arch) ==
    IF get_invoice_filename(emp) \notin DOMAIN inv
    THEN [invoice_files |-> inv, archived_files |-> arch]
    ELSE [invoice_files |-> WriteFile(inv, get_invoice_filename(emp), <<>>),
          archived_files |->
              WriteFile(arch,
                        get_archived_invoice_filename(emp, replace(payment_date, "/", "-")),
                        inv[get_invoice_filename(emp)])]

\* process_closeout's guard: nothing to close out
no_weekly_pay_strict(emp) == emp.weekly_pay < 0

no_weekly_pay(emp) == emp.weekly_pay <= 0

----------------------------------------------------------------------------
(* Inputs *)

IdInputs == {1, 2}
NameInputs == {<<"A", "l", " ", "B", " ">>}
NumberInputs == {"1", "2"}
CustomerInputs == {"c"}
StatusInputs == {"Paid", "Unpaid"}
\* the add dialog is saved with its preselected status
AddStatusInputs == {"Paid"}
Today == <<"01", "/", "09", "/", "2026">>
DateInputs == {Today, <<"01", "/", "16", "/", "2026">>, <<"01", "-", "09", "-", "2026">>}
\* a card sale (commission 90.00; 140.00 without the card) and a sale whose
\* fees exceed its total (commission -5.00)
\* numeric: the text of every amount field the handler reads parses as a
\* float; the amounts are the parsed values
AmountInputs ==
    {[cc |-> TRUE, total |-> Dollars(200), tip |-> Dollars(20),
      materials |-> Dollars(50), fees |-> Dollars(10), numeric |-> TRUE],
     [cc |-> FALSE, total |-> 0, tip |-> 0, materials |-> 0, fees |-> Dollars(10),
      numeric |-> TRUE]}
\* an amount field holding text such as "abc"
NonNumericInputs ==
    {[cc |-> FALSE, total |-> 0, tip |-> 0, materials |-> 0, fees |-> 0,
      numeric |-> FALSE]}
\* an invoice number or customer field left empty
EmptyInputs == {""}
ManualInputs == {Dollars(50)}
\* the IDs typed into the edit-employee dialog: one in use, one free
NewIdInputs == {2, 3}

----------------------------------------------------------------------------
(* Initial state: PayrollTrackerGUI.__init__ in a directory without files  *)

\* (InitFresh), or in one where an earlier session added employees
InitFresh ==
    /\ heap = <<>>
    /\ employees = <<>>
    /\ employees_csv = NoFile
    /\ invoice_files = NoFiles
    /\ archived_files = NoFiles
    /\ payment_files = NoFiles
    /\ view = NoView
    /\ add_dlg = NoAddDlg
    /\ edit_dlg = NoEditDlg
    /\ date_dlg = NoDateDlg
    /\ emp_dlg = NoEmpDlg
    /\ steps = 0
    /\ invoice = NoInvoice

\* the employees an earlier session's save_new_employee calls left on disk
EarlierEmployees(n) ==
    [i \in 1..n |-> Employee(i, strip(CHOOSE name \in NameInputs : TRUE), 0, 0)]

InitEarlier(n) ==
    LET staff == EarlierEmployees(n)
    IN  /\ heap = staff
        /\ employees = [i \in 1..n |-> i]
        /\ employees_csv = [exists |-> TRUE,
                            rows |-> [i \in 1..n |->
                                         [id |-> staff[i].id, name |-> staff[i].name,
                                          weekly_pay |-> 0, year_to_date_pay |-> 0]]]
        /\ invoice_files = [f \in {get_invoice_filename(staff[i]) : i \in 1..n} |-> <<>>]
        /\ archived_files = NoFiles
        /\ payment_files = NoFiles
        /\ view = NoView
        /\ add_dlg = NoAddDlg
        /\ edit_dlg = NoEditDlg
        /\ date_dlg = NoDateDlg
        /\ emp_dlg = NoEmpDlg
        /\ steps = 0
        /\ invoice = NoInvoice

\* ... and went on to add one card sale to the first employee, close that
\* employee's week and add the same sale to the second employee
InitClosedWeek ==
    LET staff == EarlierEmployees(2)
        amt == CHOOSE a \in AmountInputs : a.cc
        sale == Invoice("1", "c", Today, "Paid", amt.cc, amt.total, amt.tip,
                        amt.materials, amt.fees)
        row == CHOOSE r \in InvoiceRows("1", "c", Today, "Paid", amt.total, amt.tip,
                                        amt.materials, amt.fees, sale.commission) : TRUE
        paid == edit_pay(add_weekly_pay(staff[1], sale.commission), 0)
        owed == [staff[2] EXCEPT !.weekly_pay = sale.commission]
    IN  /\ heap = <<paid, owed>>
        /\ employees = <<1, 2>>
        /\ employees_csv \in save_employees(<<paid, owed>>, <<1, 2>>)
        /\ invoice_files = WriteFile(WriteFile(NoFiles, get_invoice_filename(paid), <<>>),
                                      get_invoice_filename(owed), <<row>>)
        /\ archived_files =
               WriteFile(NoFiles, get_archived_invoice_filename(paid, Today), <<row>>)
        /\ payment_files \in record_payment(paid, sale.commission, Today, NoFiles)
        /\ view = NoView
        /\ add_dlg = NoAddDlg
        /\ edit_dlg = NoEditDlg
        /\ date_dlg = NoDateDlg
        /\ emp_dlg = NoEmpDlg
        /\ steps = 0
        /\ invoice = NoInvoice

Init == InitFresh \/ InitEarlier(Cardinality(IdInputs)) \/ InitClosedWeek

----------------------------------------------------------------------------
(* Handlers.  The payment-date dialog is modal (grab_set): while it is open *)
(* no other handler runs.                                                   *)

float_ok_always(amt) == TRUE

\* float(fields[...].get()) raises no ValueError
float_ok(amt) == amt.numeric

\* Scope of Spec: one dialog (add invoice, edit invoice, edit employee) is
\* open at a time, the modal payment-date dialog apart.  Everywhere at most
\* one dialog of each kind is open.
NoDialogOpen == ~add_dlg.open /\ ~edit_dlg.open /\ ~emp_dlg.open

\* add_employee.save_new_employee
save_new_employee(id_text, name_text) ==
    LET emp_name == strip(name_text)
        new_emp == Employee(id_text, emp_name, 0, 0)
    IN  /\ ~date_dlg.open
        /\ steps < MaxSteps
        /\ emp_name # <<>>
        /\ find_employee(heap, employees, id_text) = 0
        /\ invoice_files' = WriteFile(invoice_files, get_invoice_filename(new_emp), <<>>)
        /\ SaveAndLoad(Append(heap, new_emp), Append(employees, Len(heap) + 1),
                       NoView, add_dlg, edit_dlg, date_dlg, emp_dlg)
        /\ steps' = steps + 1
        /\ UNCHANGED <<archived_files, payment_files, invoice>>

\* save_new_employee with an ID that find_employee finds: error box
save_new_employee_duplicate(id_text, name_text) ==
    /\ ~date_dlg.open
    /\ strip(name_text) # <<>>
    /\ find_employee(heap, employees, id_text) # 0
    /\ UNCHANGED vars

\* manage_invoices.view_invoices
view_invoices(i) ==
    LET emp == find_employee(heap, employees, heap[employees[i]].id)
    IN  /\ ~date_dlg.open
        /\ Commit(heap, employees, view_employee_invoices(heap, emp, invoice_files),
                  add_dlg, edit_dlg, date_dlg, emp_dlg)
        /\ UNCHANGED <<employees_csv, invoice_files, archived_files, payment_files,
                       steps, invoice>>

\* manage_invoices.add_invoice: opens add_invoice_dialog(emp)
add_invoice(i) ==
    LET emp == find_employee(heap, employees, heap[employees[i]].id)
    IN  /\ ~date_dlg.open
        /\ ~add_dlg.open
        /\ Commit(heap, employees, NoView, [open |-> TRUE, emp |-> emp],
                  edit_dlg, date_dlg, emp_dlg)
        /\ UNCHANGED <<employees_csv, invoice_files, archived_files, payment_files,
                       steps, invoice>>

\* add_invoice_dialog.save_invoice
save_invoice(number, customer, status, manual_override, manual_commission, amt) ==
    LET emp == add_dlg.emp
        cc_used == IF manual_override THEN FALSE ELSE amt.cc
        total == IF manual_override THEN 0 ELSE amt.total
        tip == IF manual_override THEN 0 ELSE amt.tip
        materials == IF manual_override THEN 0 ELSE amt.materials
        fees == IF manual_override THEN 0 ELSE amt.fees
        commission ==
            IF manual_override THEN manual_commission
            ELSE Invoice(number, customer, Today, status, cc_used, total, tip,
                         materials, fees).commission
        filename == get_invoice_filename(heap[emp])
    IN  /\ add_dlg.open
        /\ ~date_dlg.open
        /\ steps < MaxSteps
        /\ number # "" /\ customer # ""
        /\ float_ok(amt)
        /\ \E row \in InvoiceRows(number, customer, Today, status, total, tip,
                                  materials, fees, commission) :
              LET files == WriteFile(invoice_files, filename,
                                     Append(ReadFile(invoice_files, filename), row))
                  h1 == [heap EXCEPT ![emp].weekly_pay = @ + commission]
              IN  /\ invoice_files' = files
                  /\ SaveAndLoad(h1, employees, view_employee_invoices(h1, emp, files),
                                 NoAddDlg, edit_dlg, date_dlg, emp_dlg)
        /\ steps' = steps + 1
        /\ UNCHANGED <<archived_files, payment_files, invoice>>

\* save_invoice with an empty number or customer (warning box) or with an
\* amount field that does not parse (ValueError, error box): the handler
\* ends before anything is written and the dialog stays open
save_invoice_invalid(number, customer, amt) ==
    /\ add_dlg.open
    /\ ~date_dlg.open
    /\ number = "" \/ customer = "" \/ ~float_ok(amt)
    /\ UNCHANGED vars

\* view_employee_invoices.on_double_click: opens edit_invoice_dialog(emp, inv_row)
on_double_click(k) ==
    /\ view.open
    /\ ~date_dlg.open
    /\ ~edit_dlg.open
    /\ Commit(heap, employees, view, add_dlg,
              [open |-> TRUE, emp |-> view.emp,
               invoice_row |-> FirstRow(view.invoice_data, view.invoice_data[k].number)],
              date_dlg, emp_dlg)
    /\ UNCHANGED <<employees_csv, invoice_files, archived_files, payment_files,
                   steps, invoice>>

\* edit_invoice_dialog.save_changes.  The dialog opens with the old row's
\* fields and the credit-card box unticked; amt is what the fields hold on
\* Save.  An employee file that no longer exists ends the handler with an
\* uncaught FileNotFoundError before anything is written.
save_changes(new_number, amt) ==
    LET emp == edit_dlg.emp
        old == edit_dlg.invoice_row
        filename == get_invoice_filename(heap[emp])
        new_commission ==
            Invoice(new_number, old.customer, old.date, old.status, amt.cc, amt.total,
                    amt.tip, amt.materials, amt.fees).commission
        commission_diff == new_commission - old.commission
    IN  /\ edit_dlg.open
        /\ ~date_dlg.open
        /\ steps < MaxSteps
        /\ float_ok(amt)
        /\ new_number # "" /\ old.customer # ""
        /\ filename \in DOMAIN invoice_files
        /\ \E row \in InvoiceRows(new_number, old.customer, old.date, old.status,
                                  amt.total, amt.tip, amt.materials, amt.fees,
                                  new_commission) :
              LET invoices == [k \in DOMAIN invoice_files[filename] |->
                                  IF invoice_files[filename][k].number = old.number
                                  THEN row ELSE invoice_files[filename][k]]
                  files == WriteFile(invoice_files, filename, invoices)
                  h1 == [heap EXCEPT ![emp].weekly_pay = @ + commission_diff]
              IN  /\ invoice_files' = files
                  /\ SaveAndLoad(h1, employees, view_employee_invoices(h1, emp, files),
                                 add_dlg, NoEditDlg, date_dlg, emp_dlg)
        /\ steps' = steps + 1
        /\ UNCHANGED <<archived_files, payment_files, invoice>>

\* save_changes with an amount field that does not parse (ValueError) or an
\* empty number (warning box): nothing is written, the dialog stays open
save_changes_invalid(new_number, amt) ==
    /\ edit_dlg.open
    /\ ~date_dlg.open
    /\ ~float_ok(amt) \/ new_number = "" \/ edit_dlg.invoice_row.customer = ""
    /\ UNCHANGED vars

\* the amounts the edit dialog holds when the user changes none of them
Prefilled(old) ==
    [cc |-> FALSE, total |-> old.total, tip |-> old.tip,
     materials |-> old.materials, fees |-> old.fees, numeric |-> TRUE]

\* toggle_invoice_status (keys P / U in the invoice list)
toggle_invoice_status(k, new_status) ==
    LET invoice_row == FirstRow(view.invoice_data, view.invoice_data[k].number)
        filename == get_invoice_filename(heap[view.emp])
    IN  /\ view.open
        /\ ~date_dlg.open
        /\ steps < MaxSteps
        /\ invoice_row.status # new_status
        /\ filename \in DOMAIN invoice_files
        /\ LET invoices == [j \in DOMAIN invoice_files[filename] |->
                               IF invoice_files[filename][j].number = invoice_row.number
                               THEN [invoice_files[filename][j] EXCEPT !.status = new_status]
                               ELSE invoice_files[filename][j]]
               files == WriteFile(invoice_files, filename, invoices)
           IN  /\ invoice_files' = files
               /\ Commit(heap, employees, view_employee_invoices(heap, view.emp, files),
                         add_dlg, edit_dlg, date_dlg, emp_dlg)
        /\ steps' = steps + 1
        /\ UNCHANGED <<employees_csv, archived_files, payment_files, invoice>>

\* toggle_invoice_status when the row found already has the status: info box
toggle_invoice_status_same(k, new_status) ==
    /\ view.open
    /\ ~date_dlg.open
    /\ FirstRow(view.invoice_data, view.invoice_data[k].number).status = new_status
    /\ UNCHANGED vars

\* edit_employee_info.edit_selected: opens the edit-employee dialog for emp
edit_selected(i) ==
    LET emp == find_employee(heap, employees, heap[employees[i]].id)
    IN  /\ ~date_dlg.open
        /\ ~emp_dlg.open
        /\ Commit(heap, employees, NoView, add_dlg, edit_dlg, date_dlg,
                  [open |-> TRUE, emp |-> emp])
        /\ UNCHANGED <<employees_csv, invoice_files, archived_files, payment_files,
                       steps, invoice>>

id_conflict_none(h, L, emp, new_id) == FALSE

\* save_employee's check: the new ID is used by an employee of the list
id_conflict(h, L, emp, new_id) ==
    /\ new_id # h[emp].id
    /\ \E i \in DOMAIN L : h[L[i]].id = new_id

\* edit_selected.save_employee with an ID in use: error box, dialog stays
save_employee_conflict(id_text, name_text) ==
    /\ emp_dlg.open
    /\ ~date_dlg.open
    /\ strip(name_text) # <<>>
    /\ id_conflict(heap, employees, emp_dlg.emp, id_text)
    /\ UNCHANGED vars

\* edit_selected.save_employee: the captured emp gets the new ID and name,
\* its invoice file is renamed, then save_employees, load_employees and
\* view_weekly_pay.  When os.rename raises, the handler ends there: emp is
\* changed in memory, nothing is written and the dialog stays open.
save_employee(id_text, name_text) ==
    LET emp == emp_dlg.emp
        new_name == strip(name_text)
        old_filename == get_invoice_filename(heap[emp])
        renamed == [heap[emp] EXCEPT !.id = id_text, !.name = new_name]
        new_filename == get_invoice_filename(renamed)
        h1 == [heap EXCEPT ![emp] = renamed]
    IN  /\ emp_dlg.open
        /\ ~date_dlg.open
        /\ steps < MaxSteps
        /\ new_name # <<>>
        /\ ~id_conflict(heap, employees, emp, id_text)
        /\ IF old_filename # new_filename /\ old_filename \in DOMAIN invoice_files
           THEN \E outcome \in RenameOutcomes(invoice_files, old_filename, new_filename) :
                   IF outcome = "FileExistsError"
                   THEN /\ Commit(h1, employees, view, add_dlg, edit_dlg, date_dlg,
                                  emp_dlg)
                        /\ UNCHANGED <<employees_csv, invoice_files>>
                   ELSE /\ invoice_files' =
                               RenameFile(invoice_files, old_filename, new_filename)
                        /\ SaveAndLoad(h1, employees, NoView, add_dlg, edit_dlg,
                                       date_dlg, NoEmpDlg)
           ELSE /\ UNCHANGED invoice_files
                /\ SaveAndLoad(h1, employees, NoView, add_dlg, edit_dlg, date_dlg,
                               NoEmpDlg)
        /\ steps' = steps + 1
        /\ UNCHANGED <<archived_files, payment_files, invoice>>

\* close_out_week.process_closeout up to the payment-date dialog: refused
\* when there is no weekly pay, otherwise the modal dialog opens
process_closeout(i) ==
    LET emp == find_employee(heap, employees, heap[employees[i]].id)
    IN  /\ ~date_dlg.open
        /\ IF no_weekly_pay(heap[emp])
           THEN Commit(heap, employees, NoView, add_dlg, edit_dlg, date_dlg, emp_dlg)
           ELSE Commit(heap, employees, NoView, add_dlg, edit_dlg,
                       [open |-> TRUE, emp |-> emp, pc |-> "dialog", date |-> <<>>],
                       emp_dlg)
        /\ UNCHANGED <<employees_csv, invoice_files, archived_files, payment_files,
                       steps, invoice>>

\* confirm_closeout with a date that does not parse: error box, dialog stays
confirm_closeout_invalid(date_text) ==
    /\ date_dlg.open
    /\ date_dlg.pc = "dialog"
    /\ ~strptime_ok(strip(date_text))
    /\ UNCHANGED vars

\* cancel_closeout: the dialog closes, result['confirmed'] stays False
cancel_closeout ==
    /\ date_dlg.open
    /\ date_dlg.pc = "dialog"
    /\ Commit(heap, employees, view, add_dlg, edit_dlg, NoDateDlg, emp_dlg)
    /\ UNCHANGED <<employees_csv, invoice_files, archived_files, payment_files,
                   steps, invoice>>

\* confirm_closeout with a valid date, and process_closeout's continuation
\* after wait_window: record_payment, archive_invoices, add_weekly_pay,
\* edit_pay(0), save_employees, load_employees, close_out_week
confirm_closeout(date_text) ==
    LET payment_date == strip(date_text)
        emp == date_dlg.emp
        archived == archive_invoices(heap[emp], payment_date, invoice_files,
                                     archived_files)
        paid == edit_pay(add_weekly_pay(heap[emp], heap[emp].weekly_pay), 0)
    IN  /\ date_dlg.open
        /\ date_dlg.pc = "dialog"
        /\ strptime_ok(payment_date)
        /\ steps < MaxSteps
        /\ payment_files' \in record_payment(heap[emp], heap[emp].weekly_pay,
                                             payment_date, payment_files)
        /\ invoice_files' = archived.invoice_files
        /\ archived_files' = archived.archived_files
        /\ SaveAndLoad([heap EXCEPT ![emp] = paid], employees, NoView, add_dlg,
                       edit_dlg, NoDateDlg, emp_dlg)
        /\ steps' = steps + 1
        /\ UNCHANGED invoice

Next ==
    \/ \E id_text \in IdInputs, name_text \in NameInputs :
           save_new_employee(id_text, name_text)
    \/ \E id_text \in IdInputs, name_text \in NameInputs :
           save_new_employee_duplicate(id_text, name_text)
    \/ \E i \in DOMAIN employees : view_invoices(i)
    \/ \E i \in DOMAIN employees : NoDialogOpen /\ add_invoice(i)
    \/ \E number \in NumberInputs \cup EmptyInputs,
          customer \in CustomerInputs \cup EmptyInputs,
          status \in AddStatusInputs, amt \in AmountInputs \cup NonNumericInputs :
           save_invoice(number, customer, status, FALSE, 0, amt)
    \/ \E number \in NumberInputs \cup EmptyInputs,
          customer \in CustomerInputs \cup EmptyInputs,
          status \in AddStatusInputs, manual_commission \in ManualInputs,
          amt \in {Prefilled(NoRow)} \cup NonNumericInputs :
           save_invoice(number, customer, status, TRUE, manual_commission, amt)
    \/ \E number \in NumberInputs \cup EmptyInputs,
          customer \in CustomerInputs \cup EmptyInputs,
          amt \in AmountInputs \cup NonNumericInputs :
           save_invoice_invalid(number, customer, amt)
    \/ \E k \in DOMAIN view.invoice_data : NoDialogOpen /\ on_double_click(k)
    \/ \E new_number \in NumberInputs \cup EmptyInputs,
          amt \in AmountInputs \cup NonNumericInputs
                    \cup {Prefilled(edit_dlg.invoice_row)} :
           save_changes(new_number, amt)
    \/ \E new_number \in NumberInputs \cup EmptyInputs,
          amt \in AmountInputs \cup NonNumericInputs :
           save_changes_invalid(new_number, amt)
    \/ \E k \in DOMAIN view.invoice_data, new_status \in StatusInputs :
           toggle_invoice_status(k, new_status)
    \/ \E k \in DOMAIN view.invoice_data, new_status \in StatusInputs :
           toggle_invoice_status_same(k, new_status)
    \/ \E i \in DOMAIN employees : NoDialogOpen /\ edit_selected(i)
    \/ \E id_text \in NewIdInputs, name_text \in NameInputs :
           save_employee_conflict(id_text, name_text)
    \/ \E id_text \in NewIdInputs, name_text \in NameInputs :
           save_employee(id_text, name_text)
    \/ \E i \in DOMAIN employees : process_closeout(i)
    \/ \E date_text \in DateInputs : confirm_closeout_invalid(date_text)
    \/ cancel_closeout
    \/ \E date_text \in DateInputs : confirm_closeout(date_text)

Spec == Init /\ [][Next]_vars

----------------------------------------------------------------------------
(* The confirmed close-out statement by statement (SpecCloseout): the       *)
(* continuation of process_closeout after wait_window runs without          *)
(* returning to the event loop, so no other handler runs between its        *)
(* statements; date_dlg.pc is the statement reached.                        *)

\* archive_invoices, first half: shutil.copy2(current_filename, archived_filename)
copy2_skip(emp, payment_date, inv, arch) == arch

copy2(emp, payment_date, inv, arch) ==
    WriteFile(arch, get_archived_invoice_filename(emp, replace(payment_date, "/", "-")),
              inv[get_invoice_filename(emp)])

\* archive_invoices, second half: the active file rewritten with its header
write_header(emp, inv) == WriteFile(inv, get_invoice_filename(emp), <<>>)

\* confirm_closeout with a valid date: result is filled, the dialog destroyed
confirm_closeout_destroy(date_text) ==
    LET payment_date == strip(date_text)
    IN  /\ date_dlg.open
        /\ date_dlg.pc = "dialog"
        /\ strptime_ok(payment_date)
        /\ steps < MaxSteps
        /\ date_dlg' = [date_dlg EXCEPT !.pc = "confirmed", !.date = payment_date]
        /\ UNCHANGED <<heap, employees, employees_csv, invoice_files, archived_files,
                       payment_files, view, add_dlg, edit_dlg, emp_dlg, steps, invoice>>

\* self.record_payment(emp, emp.weekly_pay, result['date'])
closeout_record_payment ==
    LET emp == heap[date_dlg.emp]
    IN  /\ date_dlg.pc = "confirmed"
        /\ payment_files' \in record_payment(emp, emp.weekly_pay, date_dlg.date,
                                             payment_files)
        /\ date_dlg' = [date_dlg EXCEPT !.pc = "recorded"]
        /\ UNCHANGED <<heap, employees, employees_csv, invoice_files, archived_files,
                       view, add_dlg, edit_dlg, emp_dlg, steps, invoice>>

\* self.archive_invoices(emp, result['date']) up to the copy; without an
\* active file archive_invoices returns at once
closeout_archive_copy ==
    LET emp == heap[date_dlg.emp]
    IN  /\ date_dlg.pc = "recorded"
        /\ IF get_invoice_filename(emp) \notin DOMAIN invoice_files
           THEN /\ date_dlg' = [date_dlg EXCEPT !.pc = "archived"]
                /\ UNCHANGED archived_files
           ELSE /\ date_dlg' = [date_dlg EXCEPT !.pc = "copied"]
                /\ archived_files' = copy2(emp, date_dlg.date, invoice_files,
                                           archived_files)
        /\ UNCHANGED <<heap, employees, employees_csv, invoice_files, payment_files,
                       view, add_dlg, edit_dlg, emp_dlg, steps, invoice>>

\* archive_invoices after the copy: the active file is cleared
closeout_archive_clear ==
    /\ date_dlg.pc = "copied"
    /\ invoice_files' = write_header(heap[date_dlg.emp], invoice_files)
    /\ date_dlg' = [date_dlg EXCEPT !.pc = "archived"]
    /\ UNCHANGED <<heap, employees, employees_csv, archived_files, payment_files,
                   view, add_dlg, edit_dlg, emp_dlg, steps, invoice>>

\* emp.add_weekly_pay(emp.weekly_pay)
closeout_add_weekly_pay ==
    LET emp == date_dlg.emp
    IN  /\ date_dlg.pc = "archived"
        /\ heap' = [heap EXCEPT ![emp] = add_weekly_pay(heap[emp], heap[emp].weekly_pay)]
        /\ date_dlg' = [date_dlg EXCEPT !.pc = "added"]
        /\ UNCHANGED <<employees, employees_csv, invoice_files, archived_files,
                       payment_files, view, add_dlg, edit_dlg, emp_dlg, steps, invoice>>

\* emp.edit_pay(0)
closeout_edit_pay ==
    LET emp == date_dlg.emp
    IN  /\ date_dlg.pc = "added"
        /\ heap' = [heap EXCEPT ![emp] = edit_pay(heap[emp], 0)]
        /\ date_dlg' = [date_dlg EXCEPT !.pc = "reset"]
        /\ UNCHANGED <<employees, employees_csv, invoice_files, archived_files,
                       payment_files, view, add_dlg, edit_dlg, emp_dlg, steps, invoice>>

\* self.save_employees(); self.load_employees(); self.close_out_week()
closeout_save_load ==
    /\ date_dlg.pc = "reset"
    /\ SaveAndLoad(heap, employees, NoView, add_dlg, edit_dlg, NoDateDlg, emp_dlg)
    /\ steps' = steps + 1
    /\ UNCHANGED <<invoice_files, archived_files, payment_files, invoice>>

NextCloseout ==
    \/ \E i \in DOMAIN employees : NoDialogOpen /\ add_invoice(i)
    \/ \E number \in NumberInputs, customer \in CustomerInputs,
          status \in AddStatusInputs, amt \in AmountInputs :
           save_invoice(number, customer, status, FALSE, 0, amt)
    \/ \E i \in DOMAIN employees : process_closeout(i)
    \/ cancel_closeout
    \/ \E date_text \in DateInputs : confirm_closeout_destroy(date_text)
    \/ closeout_record_payment
    \/ closeout_archive_copy
    \/ closeout_archive_clear
    \/ closeout_add_weekly_pay
    \/ closeout_edit_pay
    \/ closeout_save_load

SpecCloseout == Init /\ [][NextCloseout]_vars

----------------------------------------------------------------------------
(* Two invoice dialogs open together (SpecDialogs): the dialogs are not     *)
(* modal, so with the edit dialog of an invoice open the user can go to     *)
(* Manage Invoices and open the add dialog, and save the two in either      *)
(* order.  Only the invoice handlers run, with amounts whose commission is  *)
(* not negative; the edit dialog is opened from a list reached through the  *)
(* employee selection (not from the list a save redisplays), and a second   *)
(* dialog only for the employee of the one already open.                    *)

\* a card sale (commission 90.00)
CardSaleInputs == {amt \in AmountInputs : amt.cc}

NextDialogs ==
    \/ \E i \in DOMAIN employees : view_invoices(i)
    \/ \E i \in DOMAIN employees :
           /\ edit_dlg.open => edit_dlg.emp = employees[i]
           /\ add_invoice(i)
    \/ \E number \in NumberInputs, customer \in CustomerInputs,
          status \in AddStatusInputs, amt \in CardSaleInputs :
           save_invoice(number, customer, status, FALSE, 0, amt)
    \/ \E k \in DOMAIN view.invoice_data :
           /\ \E i \in DOMAIN employees : employees[i] = view.emp
           /\ add_dlg.open => add_dlg.emp = view.emp
           /\ on_double_click(k)
    \/ \E amt \in CardSaleInputs \cup {Prefilled(edit_dlg.invoice_row)} :
           save_changes(edit_dlg.invoice_row.number, amt)

SpecDialogs == Init /\ [][NextDialogs]_vars

----------------------------------------------------------------------------
(* Editing from the redisplayed list (SpecRedisplay): one dialog at a time, *)
(* only the invoice handlers, amounts whose commission is not negative.     *)
(* After a save the panel shows view_employee_invoices(emp) again, and the  *)
(* next double-click opens the edit dialog from that list.                  *)

NextRedisplay ==
    \/ \E i \in DOMAIN employees : view_invoices(i)
    \/ \E i \in DOMAIN employees : NoDialogOpen /\ add_invoice(i)
    \/ \E number \in NumberInputs, customer \in CustomerInputs,
          status \in AddStatusInputs, amt \in CardSaleInputs :
           save_invoice(number, customer, status, FALSE, 0, amt)
    \/ \E k \in DOMAIN view.invoice_data : NoDialogOpen /\ on_double_click(k)
    \/ \E amt \in CardSaleInputs \cup {Prefilled(edit_dlg.invoice_row)} :
           save_changes(edit_dlg.invoice_row.number, amt)

SpecRedisplay == Init /\ [][NextRedisplay]_vars

----------------------------------------------------------------------------
(* The commission formula on its own: Invoice objects built from typed      *)
(* amounts around the 35.00 materials threshold, half-cent results included *)

CalcTotals == {0, CentsAmt(1), Dollars(100) + CentsAmt(1), Dollars(200)}
CalcTips == {0, Dollars(20)}
CalcMaterials == {0 - Dollars(1), 0, Dollars(20), CentsAmt(3499), Dollars(35),
                  CentsAmt(3501), Dollars(50)}
CalcFees == {0, Dollars(10), Dollars(250)}

new_invoice(credit_card_used, total, tip, materials, fees) ==
    /\ invoice' = Invoice("1", "c", Today, "Paid", credit_card_used, total, tip,
                          materials, fees)
    /\ UNCHANGED <<heap, employees, employees_csv, invoice_files, archived_files,
                   payment_files, view, add_dlg, edit_dlg, date_dlg, emp_dlg, steps>>

NextCalc ==
    \E credit_card_used \in BOOLEAN, total \in CalcTotals, tip \in CalcTips,
       materials \in CalcMaterials, fees \in CalcFees :
        new_invoice(credit_card_used, total, tip, materials, fees)

SpecCalc == InitFresh /\ [][NextCalc]_vars

----------------------------------------------------------------------------
(* Claims about the commission formula (SpecCalc) *)

\* C1: with the credit card used the commission is (total - materials - fees)/2
\* + tip, whatever the materials are (below, at or above 35.00).
C1_CardCommission ==
    invoice.credit_card_used =>
        2 * invoice.commission =
            (invoice.total - invoice.materials - invoice.fees) + 2 * invoice.tip

C1_Witness ==
    /\ invoice.number = "1"
    /\ invoice.credit_card_used
    /\ invoice.materials >= Dollars(35)
    /\ invoice.commission # 0

\* C2: without the card and with materials strictly below 35.00 (34.99
\* included) the commission is (total - fees)/2 + tip: materials play no part.
C2_LowMaterialsIgnored ==
    (~invoice.credit_card_used /\ invoice.materials < Dollars(35)) =>
        2 * invoice.commission = (invoice.total - invoice.fees) + 2 * invoice.tip

C2_Witness ==
    /\ invoice.number = "1"
    /\ ~invoice.credit_card_used
    /\ invoice.materials = CentsAmt(3499)
    /\ invoice.total = Dollars(200)

\* C3: without the card and with materials of 35.00 or more (35.00 itself
\* included) the commission is (total - materials - fees)/2 + tip + materials.
C3_HighMaterialsAddedBack ==
    (~invoice.credit_card_used /\ invoice.materials >= Dollars(35)) =>
        2 * invoice.commission =
            (invoice.total - invoice.materials - invoice.fees) + 2 * invoice.tip
                + 2 * invoice.materials

C3_Witness ==
    /\ invoice.number = "1"
    /\ ~invoice.credit_card_used
    /\ invoice.materials = Dollars(35)
    /\ invoice.fees = Dollars(10)

----------------------------------------------------------------------------
(* Claims about close-out (Spec) *)

\* position in self.employees of the object at an address
IndexOf(addr) == CHOOSE i \in DOMAIN employees : employees[i] = addr

RECURSIVE SumCommission(_)
SumCommission(rows) ==
    IF rows = <<>> THEN 0 ELSE Head(rows).commission + SumCommission(Tail(rows))

\* C4: after a confirmed close-out of an employee with payment date D the
\* employee's active invoice file holds no rows and the archive keyed by
\* (employee, D) holds exactly the rows that were active just before.
C4_CloseoutArchivesActiveSet ==
    [][\A d \in DateInputs :
          confirm_closeout(d) =>
              LET emp == heap[date_dlg.emp]
                  active == get_invoice_filename(emp)
                  archive == <<replace(lower(strip(emp.name)), " ", "_"), emp.id,
                               replace(strip(d), "/", "-")>>
              IN  /\ active \in DOMAIN invoice_files'
                  /\ invoice_files'[active] = <<>>
                  /\ archive \in DOMAIN archived_files'
                  /\ archived_files'[archive] = ReadFile(invoice_files, active)]_vars

C4_Witness ==
    \E f \in DOMAIN archived_files :
        /\ f[2] = 2
        /\ Len(archived_files[f]) >= 1
        /\ ReadFile(invoice_files, <<f[1], f[2]>>) = <<>>

\* C5: a confirmed close-out of an employee with weekly pay w > 0 and
\* year-to-date pay y leaves that employee with year-to-date pay y + w and
\* weekly pay 0, in memory and in employees.csv, and leaves the weekly and
\* year-to-date pay of every other employee as it was, in memory and in
\* employees.csv.
C5_CloseoutMovesWeeklyToYtd ==
    [][\A d \in DateInputs :
          confirm_closeout(d) =>
              LET i == IndexOf(date_dlg.emp)
                  w == heap[date_dlg.emp].weekly_pay
                  y == heap[date_dlg.emp].year_to_date_pay
              IN  /\ w > 0
                  /\ Len(employees') = Len(employees)
                  /\ Len(employees_csv'.rows) = Len(employees)
                  /\ \A j \in DOMAIN employees :
                        LET before == heap[employees[j]]
                            after == heap'[employees'[j]]
                            row_before == employees_csv.rows[j]
                            row == employees_csv'.rows[j]
                        IN  /\ after.id = before.id
                            /\ row.id = before.id
                            /\ IF j = i
                               THEN /\ after.weekly_pay = 0
                                    /\ row.weekly_pay = 0
                                    /\ after.year_to_date_pay = y + w
                                    /\ row.year_to_date_pay = y + w
                               ELSE /\ after.weekly_pay = before.weekly_pay
                                    /\ row.weekly_pay = row_before.weekly_pay
                                    /\ after.year_to_date_pay = before.year_to_date_pay
                                    /\ row.year_to_date_pay =
                                           row_before.year_to_date_pay]_vars

C5_Witness ==
    \E i \in DOMAIN employees, j \in DOMAIN employees :
        /\ heap[employees[i]].id = 2
        /\ heap[employees[i]].weekly_pay = 0
        /\ heap[employees[i]].year_to_date_pay > 0
        /\ employees_csv.rows[i].year_to_date_pay = heap[employees[i]].year_to_date_pay
        /\ j # i
        /\ heap[employees[j]].year_to_date_pay > 0

\* C6: close-out of an employee whose weekly pay is <= 0 is refused: the
\* payment-date dialog does not open for such an employee, and the click
\* changes no payment history, archive, active invoice file or pay.
C6_CloseoutRefusedWithoutPay ==
    [][/\ date_dlg'.open => heap'[date_dlg'.emp].weekly_pay > 0
       /\ \A i \in DOMAIN employees :
             (process_closeout(i) /\ heap[employees[i]].weekly_pay <= 0) =>
                 /\ ~date_dlg'.open
                 /\ payment_files' = payment_files
                 /\ archived_files' = archived_files
                 /\ invoice_files' = invoice_files
                 /\ employees_csv' = employees_csv
                 /\ Len(employees') = Len(employees)
                 /\ \A j \in DOMAIN employees :
                       heap'[employees'[j]] = heap[employees[j]]]_vars

C6_Witness ==
    \E i \in DOMAIN employees :
        /\ heap[employees[i]].weekly_pay <= 0
        /\ ReadFile(invoice_files, get_invoice_filename(heap[employees[i]])) # <<>>
        /\ ~date_dlg.open
        /\ ~view.open
        /\ steps >= 1

\* C7: close-out is idempotent under double invocation.  A confirmed
\* close-out appends one payment record, raises year-to-date pay once and
\* leaves the employee without weekly pay; and invoking close-out on an
\* employee who has been closed out and has no weekly pay opens no dialog and
\* changes no payment history, archive, invoice file or pay.
C7_SecondCloseoutRefused ==
    [][/\ \A d \in DateInputs :
             confirm_closeout(d) =>
                 LET i == IndexOf(date_dlg.emp)
                     emp == heap[date_dlg.emp]
                     history == get_payment_history_filename(emp)
                     again == find_employee(heap', employees', emp.id)
                 IN  /\ again = employees'[i]
                     /\ Len(payment_files'[history]) =
                            Len(ReadFile(payment_files, history)) + 1
                     /\ heap'[again].year_to_date_pay =
                            emp.year_to_date_pay + emp.weekly_pay
                     /\ heap'[again].weekly_pay = 0
                     /\ ~date_dlg'.open
       /\ \A i \in DOMAIN employees :
             (/\ process_closeout(i)
              /\ heap[employees[i]].weekly_pay = 0
              /\ ReadFile(payment_files,
                          get_payment_history_filename(heap[employees[i]])) # <<>>) =>
                 /\ ~date_dlg'.open
                 /\ payment_files' = payment_files
                 /\ archived_files' = archived_files
                 /\ invoice_files' = invoice_files
                 /\ employees_csv' = employees_csv
                 /\ Len(employees') = Len(employees)
                 /\ \A j \in DOMAIN employees :
                       heap'[employees'[j]] = heap[employees[j]]]_vars

C7_Witness ==
    \E i \in DOMAIN employees :
        /\ heap[employees[i]].id = 2
        /\ get_payment_history_filename(heap[employees[i]]) \in DOMAIN payment_files
        /\ Len(payment_files[get_payment_history_filename(heap[employees[i]])]) = 1
        /\ heap[employees[i]].weekly_pay = 0
        /\ ~date_dlg.open

\* C8: a confirmed close-out appends exactly one record (payment date,
\* amount = the weekly pay at that moment) to that employee's payment
\* history, and no other handler changes any payment history: earlier
\* records are never removed or altered.
C8_PaymentHistoryAppendOnly ==
    [][IF date_dlg.open /\ steps' # steps
       THEN \E d \in DateInputs :
               /\ strptime_ok(strip(d))
               /\ payment_files' =
                      WriteFile(payment_files,
                                get_payment_history_filename(heap[date_dlg.emp]),
                                ReadFile(payment_files,
                                         get_payment_history_filename(heap[date_dlg.emp]))
                                    \o <<[date |-> strip(d),
                                          amount |-> heap[date_dlg.emp].weekly_pay]>>)
       ELSE payment_files' = payment_files]_vars

C8_Witness ==
    \E f \in DOMAIN payment_files :
        /\ Len(payment_files[f]) = 2
        /\ payment_files[f][1].amount > 0
        /\ payment_files[f][2].amount > 0

----------------------------------------------------------------------------
(* Claims about weekly pay and the invoice files (Spec) *)

\* C9: every saved invoice edit changes the weekly pay of the employee whose
\* invoice it is by exactly C_new - C_old (the new commission minus the one
\* the dialog was opened with) and leaves every other employee's pay as it
\* was.  Weekly pay after the edit is read from employees.csv, where
\* save_employees has just written it.
C9_EditAppliesDelta ==
    [][\A new_number \in NumberInputs,
          amt \in AmountInputs \cup {Prefilled(edit_dlg.invoice_row)} :
          save_changes(new_number, amt) =>
              LET filename == get_invoice_filename(heap[edit_dlg.emp])
                  C_old == edit_dlg.invoice_row.commission
                  C_new == calculate_commission_static(amt.cc, amt.total, amt.tip,
                                                       amt.materials, amt.fees)
              IN  /\ Len(employees_csv'.rows) = Len(employees)
                  /\ \A j \in DOMAIN employees :
                        LET before == heap[employees[j]]
                            after == employees_csv'.rows[j]
                            delta == IF get_invoice_filename(before) = filename
                                     THEN C_new - C_old ELSE 0
                        IN  /\ after.weekly_pay = before.weekly_pay + delta
                            /\ after.year_to_date_pay = before.year_to_date_pay]_vars

\* C10: the weekly pay of every employee equals the sum of the commissions
\* stored in that employee's active invoice file.
C10_WeeklyPayIsSumOfActiveCommissions ==
    \A i \in DOMAIN employees :
        heap[employees[i]].weekly_pay =
            SumCommission(ReadFile(invoice_files,
                                   get_invoice_filename(heap[employees[i]])))

----------------------------------------------------------------------------
(* Claims about pay, invoice numbers and employee IDs (Spec) *)

\* C11: weekly pay and year-to-date pay of every employee are non-negative,
\* in the in-memory employee list and in the rows of employees.csv.
C11_PayNonNegative ==
    /\ \A i \in DOMAIN employees :
          /\ heap[employees[i]].weekly_pay >= 0
          /\ heap[employees[i]].year_to_date_pay >= 0
    /\ \A j \in DOMAIN employees_csv.rows :
          /\ employees_csv.rows[j].weekly_pay >= 0
          /\ employees_csv.rows[j].year_to_date_pay >= 0

\* C12: no handler lowers an employee's year-to-date pay, in memory or in
\* employees.csv, and only a confirmed close-out raises it (that of the
\* employee being closed out).  Employees are followed by their position in
\* self.employees, which no handler changes.
C12_YtdNeverDecreases ==
    [][/\ Len(employees') >= Len(employees)
       /\ \A j \in DOMAIN employees :
             LET before == heap[employees[j]].year_to_date_pay
                 after == heap'[employees'[j]].year_to_date_pay
             IN  /\ after >= before
                 /\ after > before =>
                        /\ date_dlg.open
                        /\ ~date_dlg'.open
                        /\ date_dlg.emp = employees[j]
                        /\ \E d \in DateInputs : confirm_closeout(d)
       /\ employees_csv.exists =>
             /\ employees_csv'.exists
             /\ Len(employees_csv'.rows) >= Len(employees_csv.rows)
             /\ \A j \in DOMAIN employees_csv.rows :
                   LET before == employees_csv.rows[j].year_to_date_pay
                       after == employees_csv'.rows[j].year_to_date_pay
                   IN  /\ after >= before
                       /\ after > before =>
                              /\ date_dlg.open
                              /\ heap[date_dlg.emp].id = employees_csv.rows[j].id
                              /\ \E d \in DateInputs : confirm_closeout(d)]_vars

C12_Witness ==
    \E i \in DOMAIN employees :
        /\ heap[employees[i]].year_to_date_pay > Dollars(90)
        /\ employees_csv.rows[i].year_to_date_pay = heap[employees[i]].year_to_date_pay

\* C13: no two rows of an employee's active invoice file carry the same
\* invoice number.
C13_InvoiceNumbersUnique ==
    \A f \in DOMAIN invoice_files :
        \A j, k \in DOMAIN invoice_files[f] :
            invoice_files[f][j].number = invoice_files[f][k].number => j = k

\* C14: employee IDs are unique in self.employees and in employees.csv after
\* every step; no employee is added with an ID already in the list, and no
\* employee's ID is changed to one another employee of the list has.
C14_EmployeeIdsUnique ==
    [][/\ \A j, k \in DOMAIN employees' :
             heap'[employees'[j]].id = heap'[employees'[k]].id => j = k
       /\ \A j, k \in DOMAIN employees_csv'.rows :
             employees_csv'.rows[j].id = employees_csv'.rows[k].id => j = k
       /\ \A id_text \in IdInputs, name_text \in NameInputs :
             (\E i \in DOMAIN employees : heap[employees[i]].id = id_text) =>
                 ~save_new_employee(id_text, name_text)
       /\ \A id_text \in NewIdInputs, name_text \in NameInputs :
             (/\ emp_dlg.open
              /\ heap[emp_dlg.emp].id # id_text
              /\ \E i \in DOMAIN employees : heap[employees[i]].id = id_text) =>
                 ~save_employee(id_text, name_text)]_vars

C14_Witness ==
    /\ emp_dlg.open
    /\ \E i \in DOMAIN employees :
          /\ employees[i] = emp_dlg.emp
          /\ heap[employees[i]].id \notin IdInputs
    /\ \E i \in DOMAIN employees :
          /\ employees[i] # emp_dlg.emp
          /\ heap[employees[i]].id \in NewIdInputs

----------------------------------------------------------------------------
(* Claims about adding invoices and the status toggle (Spec) *)

\* C15: an invoice saved in manual-override mode is stored with the typed
\* commission and with total, tip, materials and fees zero, and the weekly
\* pay of the employee whose invoice file it goes to rises by the typed
\* commission, in memory and in employees.csv.
C15_ManualOverrideBypassesFormula ==
    [][\A number \in NumberInputs, customer \in CustomerInputs,
          status \in AddStatusInputs, manual_commission \in ManualInputs :
          save_invoice(number, customer, status, TRUE, manual_commission,
                       Prefilled(NoRow)) =>
              LET filename == get_invoice_filename(heap[add_dlg.emp])
                  rows == invoice_files'[filename]
                  row == rows[Len(rows)]
              IN  /\ Len(rows) = Len(ReadFile(invoice_files, filename)) + 1
                  /\ row.number = number
                  /\ row.commission = manual_commission
                  /\ row.total = 0
                  /\ row.tip = 0
                  /\ row.materials = 0
                  /\ row.fees = 0
                  /\ Len(employees') = Len(employees)
                  /\ \A j \in DOMAIN employees :
                        get_invoice_filename(heap[employees[j]]) = filename =>
                            /\ heap'[employees'[j]].weekly_pay =
                                   heap[employees[j]].weekly_pay + manual_commission
                            /\ employees_csv'.rows[j].weekly_pay =
                                   heap[employees[j]].weekly_pay + manual_commission]_vars

\* C16: setting the status of the invoice selected in the list (row k)
\* changes the status field of that row only: its other fields, every other
\* row and file, and every employee's pay stay as they were; and a step that
\* sets the status the selected invoice already has does not occur.
C16_ToggleChangesOnlyStatus ==
    [][\A k \in DOMAIN view.invoice_data, new_status \in StatusInputs :
          toggle_invoice_status(k, new_status) =>
              LET filename == get_invoice_filename(heap[view.emp])
                  before == invoice_files[filename]
                  after == invoice_files'[filename]
              IN  /\ view.invoice_data[k].status # new_status
                  /\ DOMAIN invoice_files' = DOMAIN invoice_files
                  /\ \A f \in DOMAIN invoice_files \ {filename} :
                        invoice_files'[f] = invoice_files[f]
                  /\ Len(after) = Len(before)
                  /\ after[k] = [before[k] EXCEPT !.status = new_status]
                  /\ \A j \in DOMAIN before \ {k} : after[j] = before[j]
                  /\ employees_csv' = employees_csv
                  /\ archived_files' = archived_files
                  /\ payment_files' = payment_files
                  /\ Len(employees') = Len(employees)
                  /\ \A j \in DOMAIN employees :
                        heap'[employees'[j]] = heap[employees[j]]]_vars

----------------------------------------------------------------------------
(* Claims about the payment-date dialog and the archives (Spec) *)

\* C18: while the payment-date dialog is open, a date that is not written
\* MM/DD/YYYY (here: with dashes) never confirms a close-out; payment
\* histories, archives, invoice files, employees.csv and pay change only in a
\* close-out confirmed with a valid date; cancelling closes the dialog and
\* leaves everything else as it was.
C18_InvalidDateRejected ==
    [][/\ \A d \in DateInputs :
             (strip(d)[2] # "/" \/ strip(d)[4] # "/") => ~confirm_closeout(d)
       /\ date_dlg.open =>
             \/ \E d \in DateInputs :
                   /\ strip(d)[2] = "/" /\ strip(d)[4] = "/"
                   /\ confirm_closeout(d)
             \/ /\ ~date_dlg'.open
                /\ cancel_closeout
                /\ payment_files' = payment_files
                /\ archived_files' = archived_files
                /\ invoice_files' = invoice_files
                /\ employees_csv' = employees_csv
                /\ heap' = heap
                /\ employees' = employees
                /\ view' = view
                /\ add_dlg' = add_dlg
                /\ edit_dlg' = edit_dlg
                /\ emp_dlg' = emp_dlg]_vars

C18_Witness ==
    /\ date_dlg.open
    /\ heap[date_dlg.emp].year_to_date_pay > 0
    /\ add_dlg.open
    /\ \E d \in DateInputs : ENABLED confirm_closeout_invalid(d)

\* C19: an archive file, once written, is never removed and its rows are
\* never changed by any later step.
C19_ArchiveFrozen ==
    [][\A f \in DOMAIN archived_files :
          /\ f \in DOMAIN archived_files'
          /\ archived_files'[f] = archived_files[f]]_vars

\* C20: a saved add-invoice appends exactly one row to the invoice file of
\* the dialog's employee and leaves the rows before it and every other file
\* as they were; the weekly pay of that employee rises by the commission of
\* the new row, in memory and in employees.csv, and the pay of every other
\* employee is unchanged.
C20_AddAppendsOneRow ==
    [][\A number \in NumberInputs, customer \in CustomerInputs,
          status \in AddStatusInputs, manual_override \in BOOLEAN,
          manual_commission \in ManualInputs,
          amt \in AmountInputs \cup {Prefilled(NoRow)} :
          save_invoice(number, customer, status, manual_override,
                       manual_commission, amt) =>
              LET filename == get_invoice_filename(heap[add_dlg.emp])
                  before == ReadFile(invoice_files, filename)
                  after == invoice_files'[filename]
                  commission == after[Len(after)].commission
              IN  /\ Len(after) = Len(before) + 1
                  /\ SubSeq(after, 1, Len(before)) = before
                  /\ after[Len(after)].number = number
                  /\ \A f \in DOMAIN invoice_files \ {filename} :
                        /\ f \in DOMAIN invoice_files'
                        /\ invoice_files'[f] = invoice_files[f]
                  /\ Len(employees') = Len(employees)
                  /\ Len(employees_csv'.rows) = Len(employees)
                  /\ \A j \in DOMAIN employees :
                        LET old == heap[employees[j]]
                            delta == IF get_invoice_filename(old) = filename
                                     THEN commission ELSE 0
                        IN  /\ heap'[employees'[j]].weekly_pay = old.weekly_pay + delta
                            /\ employees_csv'.rows[j].weekly_pay =
                                   old.weekly_pay + delta
                            /\ heap'[employees'[j]].year_to_date_pay =
                                   old.year_to_date_pay
                            /\ employees_csv'.rows[j].year_to_date_pay =
                                   old.year_to_date_pay]_vars

----------------------------------------------------------------------------
(* Claims about the statements of a close-out (SpecCloseout) *)

\* C21: a confirmed close-out runs in the order: payment record appended,
\* active file copied to the archive, active file cleared, weekly pay added
\* to year-to-date pay, weekly pay reset; each statement changes nothing
\* else.  Hence no statement of a close-out loses an invoice: the rows of
\* the active file, together with the rows of the archive once it has been
\* copied, only grow from one statement to the next, so each invoice active
\* before the close-out is in the active file or in the archive throughout.
C21_CloseoutOrder ==
    [][date_dlg.pc \in {"confirmed", "recorded", "copied", "archived", "added", "reset"} =>
          LET emp == heap[date_dlg.emp]
              f == get_invoice_filename(emp)
              a == get_archived_invoice_filename(emp, date_dlg.date)
              p == get_payment_history_filename(emp)
              copied(pc) == pc \in {"copied", "archived", "added", "reset"}
              kept(inv, arch, pc) ==
                  {ReadFile(inv, f)[k] : k \in DOMAIN ReadFile(inv, f)}
                      \cup (IF copied(pc)
                            THEN {ReadFile(arch, a)[k] : k \in DOMAIN ReadFile(arch, a)}
                            ELSE {})
              after == heap'[date_dlg.emp]
          IN  /\ date_dlg'.pc # "idle" =>
                    /\ kept(invoice_files, archived_files, date_dlg.pc)
                           \subseteq kept(invoice_files', archived_files', date_dlg'.pc)
                    /\ date_dlg'.emp = date_dlg.emp
                    /\ date_dlg'.date = date_dlg.date
                    /\ UNCHANGED <<employees, employees_csv>>
              /\ CASE date_dlg.pc = "confirmed" ->
                          /\ date_dlg'.pc = "recorded"
                          /\ Len(payment_files'[p]) = Len(ReadFile(payment_files, p)) + 1
                          /\ payment_files'[p][Len(payment_files'[p])].date = date_dlg.date
                          /\ UNCHANGED <<invoice_files, archived_files, heap>>
                   [] date_dlg.pc = "recorded" ->
                          /\ IF f \in DOMAIN invoice_files
                             THEN /\ date_dlg'.pc = "copied"
                                  /\ a \in DOMAIN archived_files'
                                  /\ ReadFile(archived_files', a) = invoice_files[f]
                             ELSE /\ date_dlg'.pc = "archived"
                                  /\ UNCHANGED archived_files
                          /\ UNCHANGED <<payment_files, invoice_files, heap>>
                   [] date_dlg.pc = "copied" ->
                          /\ date_dlg'.pc = "archived"
                          /\ invoice_files'[f] = <<>>
                          /\ UNCHANGED <<payment_files, archived_files, heap>>
                   [] date_dlg.pc = "archived" ->
                          /\ date_dlg'.pc = "added"
                          /\ after.year_to_date_pay = emp.year_to_date_pay + emp.weekly_pay
                          /\ after.weekly_pay = emp.weekly_pay
                          /\ UNCHANGED <<payment_files, invoice_files, archived_files>>
                   [] date_dlg.pc = "added" ->
                          /\ date_dlg'.pc = "reset"
                          /\ after.weekly_pay = 0
                          /\ after.year_to_date_pay = emp.year_to_date_pay
                          /\ UNCHANGED <<payment_files, invoice_files, archived_files>>
                   [] date_dlg.pc = "reset" ->
                          /\ date_dlg'.pc = "idle"
                          /\ UNCHANGED <<payment_files, invoice_files, archived_files>>]_vars

C21_Witness ==
    /\ date_dlg.pc = "archived"
    /\ heap[date_dlg.emp].weekly_pay > 0
    /\ invoice_files[get_invoice_filename(heap[date_dlg.emp])] = <<>>
    /\ Len(archived_files[get_archived_invoice_filename(heap[date_dlg.emp],
                                                        date_dlg.date)]) = 2
    /\ Len(payment_files[get_payment_history_filename(heap[date_dlg.emp])]) >= 1

----------------------------------------------------------------------------
(* Claims about the year-to-date report and the payment history (Spec) *)

\* C22: the "Paid On" column of the year-to-date report shows, for each
\* employee of the list, the date of that employee's latest confirmed
\* close-out: a confirmed close-out sets it to the date entered, and no other
\* step (an edit of the employee's ID included) changes it for any employee;
\* an employee added by this step shows "Never Paid".
C22_ReportShowsLastCloseout ==
    [][LET before == view_ytd(heap, employees, payment_files)
           after == view_ytd(heap', employees', payment_files')
       IN  /\ Len(after) >= Len(before)
           /\ \A j \in DOMAIN after :
                 IF j \notin DOMAIN before
                 THEN after[j].paid_on = <<"Never Paid">>
                 ELSE IF date_dlg.open /\ date_dlg.emp = employees[j] /\ steps' # steps
                 THEN \E d \in DateInputs :
                         /\ confirm_closeout(d)
                         /\ after[j].paid_on = strip(d)
                 ELSE after[j].paid_on = before[j].paid_on]_vars

\* C23: the year-to-date pay of every employee of the list equals the sum of
\* the amounts recorded in that employee's payment history (0 without one).
C23_YtdIsSumOfPayments ==
    LET RECURSIVE SumAmount(_)
        SumAmount(rows) ==
            IF rows = <<>> THEN 0 ELSE Head(rows).amount + SumAmount(Tail(rows))
    IN  \A i \in DOMAIN employees :
            heap[employees[i]].year_to_date_pay =
                SumAmount(ReadFile(payment_files,
                                   get_payment_history_filename(heap[employees[i]])))

----------------------------------------------------------------------------
(* Claims about the edit-invoice dialog and open dialogs (Spec) *)

\* C24: saving the edit dialog with every field as it was opened (the number
\* of the row, its amounts, the card box as the dialog shows it) changes
\* neither the commission stored in the row nor any employee's weekly pay,
\* in employees.csv and in memory.
C24_UnchangedEditIsNoOp ==
    [][save_changes(edit_dlg.invoice_row.number, Prefilled(edit_dlg.invoice_row)) =>
          LET filename == get_invoice_filename(heap[edit_dlg.emp])
              old == edit_dlg.invoice_row
          IN  /\ \A k \in DOMAIN invoice_files'[filename] :
                    invoice_files'[filename][k].number = old.number =>
                        invoice_files'[filename][k].commission = old.commission
              /\ \A j \in DOMAIN employees :
                    /\ employees_csv'.rows[j].weekly_pay = heap[employees[j]].weekly_pay
                    /\ heap'[employees'[j]].weekly_pay = heap[employees[j]].weekly_pay]_vars

\* C25 (SpecDialogs): with an add dialog and an edit dialog open together,
\* each save applies its weekly-pay change to the persisted weekly pay of
\* the employee whose invoice file it writes, whichever is saved first: the
\* commission of the added invoice, C_new - C_old of the edited one.  The
\* reload done by the first save does not lose the change of the second.
C25_BothDialogChangesApplied ==
    [][LET applied(filename, change) ==
               /\ Len(employees_csv'.rows) = Len(employees_csv.rows)
               /\ \A j \in DOMAIN employees_csv.rows :
                     employees_csv'.rows[j].weekly_pay =
                         employees_csv.rows[j].weekly_pay
                             + (IF get_invoice_filename(employees_csv.rows[j]) = filename
                                THEN change ELSE 0)
       IN  /\ \A number \in NumberInputs, customer \in CustomerInputs,
                 status \in AddStatusInputs, amt \in CardSaleInputs :
                 save_invoice(number, customer, status, FALSE, 0, amt) =>
                     applied(get_invoice_filename(heap[add_dlg.emp]),
                             calculate_commission_static(amt.cc, amt.total, amt.tip,
                                                         amt.materials, amt.fees))
           /\ \A amt \in CardSaleInputs \cup {Prefilled(edit_dlg.invoice_row)} :
                 save_changes(edit_dlg.invoice_row.number, amt) =>
                     applied(get_invoice_filename(heap[edit_dlg.emp]),
                             calculate_commission_static(amt.cc, amt.total, amt.tip,
                                                         amt.materials, amt.fees)
                                 - edit_dlg.invoice_row.commission)]_vars

\* C26 (SpecRedisplay): an edit saved from a dialog opened in the invoice
\* list, the list redisplayed by the previous save included, changes the
\* persisted weekly pay of the employee whose file it writes by
\* C_new - C_old and no other employee's.
C26_EditFromRedisplayedList ==
    [][\A amt \in CardSaleInputs \cup {Prefilled(edit_dlg.invoice_row)} :
          save_changes(edit_dlg.invoice_row.number, amt) =>
              LET filename == get_invoice_filename(heap[edit_dlg.emp])
                  C_new == calculate_commission_static(amt.cc, amt.total, amt.tip,
                                                       amt.materials, amt.fees)
                  C_old == edit_dlg.invoice_row.commission
              IN  /\ Len(employees_csv'.rows) = Len(employees_csv.rows)
                  /\ \A j \in DOMAIN employees_csv.rows :
                        employees_csv'.rows[j].weekly_pay =
                            IF get_invoice_filename(employees_csv.rows[j]) = filename
                            THEN employees_csv.rows[j].weekly_pay + C_new - C_old
                            ELSE employees_csv.rows[j].weekly_pay]_vars

\* C29: a saved invoice edit rewrites exactly one row of the employee's
\* active invoice file, the one that was opened: the file keeps its length,
\* one row with the opened number becomes the edited row, every other row
\* is as before, and the sum of the stored commissions changes by that
\* row's change of commission.
C29_EditReplacesOneRow ==
    [][\A new_number \in NumberInputs,
          amt \in AmountInputs \cup {Prefilled(edit_dlg.invoice_row)} :
          save_changes(new_number, amt) =>
              LET filename == get_invoice_filename(heap[edit_dlg.emp])
                  old == edit_dlg.invoice_row
                  before == invoice_files[filename]
                  after == invoice_files'[filename]
              IN  /\ Len(after) = Len(before)
                  /\ \E k \in DOMAIN before :
                        /\ before[k].number = old.number
                        /\ after[k].number = new_number
                        /\ \A j \in DOMAIN before \ {k} : after[j] = before[j]
                        /\ SumCommission(after) - SumCommission(before) =
                               after[k].commission - old.commission]_vars

\* C30: an edit dialog left open while its employee's week was closed out
\* (the active file is empty, an archive of the employee holds the row the
\* dialog was opened with, the employee's weekly pay is 0) can be saved
\* without undoing the close-out: the active file stays empty, archives and
\* payment histories are untouched, and the employee's weekly pay stays 0
\* and the year-to-date pay what the close-out made it, in memory and in
\* employees.csv.
C30_EditSavedAfterCloseout ==
    [][\A new_number \in NumberInputs,
          amt \in AmountInputs \cup {Prefilled(edit_dlg.invoice_row)} :
          LET emp == heap[edit_dlg.emp]
              filename == get_invoice_filename(emp)
              owners == {j \in DOMAIN employees :
                            get_invoice_filename(heap[employees[j]]) = filename}
              closed_out ==
                  /\ ReadFile(invoice_files, filename) = <<>>
                  /\ \E d \in DateInputs :
                        \E k \in DOMAIN ReadFile(archived_files,
                                                 get_archived_invoice_filename(emp, d)) :
                            archived_files[get_archived_invoice_filename(emp, d)][k]
                                = edit_dlg.invoice_row
                  /\ owners # {}
                  /\ \A j \in owners : heap[employees[j]].weekly_pay = 0
          IN  (edit_dlg.open /\ closed_out /\ save_changes(new_number, amt)) =>
                  /\ invoice_files'[filename] = <<>>
                  /\ archived_files' = archived_files
                  /\ payment_files' = payment_files
                  /\ Len(employees') = Len(employees)
                  /\ \A j \in owners :
                        /\ heap'[employees'[j]].weekly_pay = 0
                        /\ employees_csv'.rows[j].weekly_pay = 0
                        /\ heap'[employees'[j]].year_to_date_pay =
                               heap[employees[j]].year_to_date_pay
                        /\ employees_csv'.rows[j].year_to_date_pay =
                               heap[employees[j]].year_to_date_pay]_vars

\* the list save_changes redisplays after such a save: empty, for an employee
\* closed out with the invoice in the archive
C30_Witness ==
    /\ view.open
    /\ view.invoice_data = <<>>
    /\ ~edit_dlg.open
    /\ steps = 2
    /\ \A i \in DOMAIN employees : employees[i] # view.emp
    /\ \E j \in DOMAIN employees :
          /\ get_invoice_filename(heap[employees[j]]) = get_invoice_filename(heap[view.emp])
          /\ heap[employees[j]].weekly_pay = 0
          /\ heap[employees[j]].year_to_date_pay = Dollars(90)
          /\ heap[employees[j]].id = 2
          /\ Len(ReadFile(archived_files,
                          get_archived_invoice_filename(heap[view.emp], Today))) = 1

----------------------------------------------------------------------------
(* Claims about editing an employee and about the employee table (Spec) *)

\* C27: a completed edit of an employee (the dialog closes) leaves the
\* employee with their data: the employee's row of employees.csv holds the
\* new ID and name, and the invoice file, the payment history and every
\* archive found under the new ID and name hold what those of the old ID and
\* name held before the edit.
C27_EditKeepsEmployeeData ==
    [][\A id_text \in NewIdInputs, name_text \in NameInputs :
          (save_employee(id_text, name_text) /\ ~emp_dlg'.open) =>
              LET old == heap[emp_dlg.emp]
                  new == [old EXCEPT !.id = id_text, !.name = strip(name_text)]
              IN  /\ Len(employees_csv'.rows) = Len(employees_csv.rows)
                  /\ \A j \in DOMAIN employees_csv.rows :
                        employees_csv.rows[j].id = old.id =>
                            /\ employees_csv'.rows[j].id = new.id
                            /\ employees_csv'.rows[j].name = new.name
                  /\ ReadFile(invoice_files', get_invoice_filename(new)) =
                         ReadFile(invoice_files, get_invoice_filename(old))
                  /\ ReadFile(payment_files', get_payment_history_filename(new)) =
                         ReadFile(payment_files, get_payment_history_filename(old))
                  /\ \A d \in DateInputs :
                        ReadFile(archived_files', get_archived_invoice_filename(new, d)) =
                            ReadFile(archived_files, get_archived_invoice_filename(old, d))]_vars

\* C28: after every completed add employee, edit employee, add invoice,
\* edit invoice and close-out, self.employees and the rows of employees.csv
\* agree: as many employees, and at each position the same ID, name, weekly
\* pay and year-to-date pay.
C28_MemoryAgreesWithTable ==
    [][(\/ \E id_text \in IdInputs, name_text \in NameInputs :
               save_new_employee(id_text, name_text)
        \/ \E id_text \in NewIdInputs, name_text \in NameInputs :
               save_employee(id_text, name_text) /\ ~emp_dlg'.open
        \/ \E number \in NumberInputs, customer \in CustomerInputs,
              status \in AddStatusInputs, manual_override \in BOOLEAN,
              manual_commission \in ManualInputs,
              amt \in AmountInputs \cup {Prefilled(NoRow)} :
               save_invoice(number, customer, status, manual_override,
                            manual_commission, amt)
        \/ \E new_number \in NumberInputs,
              amt \in AmountInputs \cup {Prefilled(edit_dlg.invoice_row)} :
               save_changes(new_number, amt)
        \/ \E date_text \in DateInputs : confirm_closeout(date_text)) =>
          /\ employees_csv'.exists
          /\ Len(employees') = Len(employees_csv'.rows)
          /\ \A j \in DOMAIN employees' :
                LET emp == heap'[employees'[j]]
                    row == employees_csv'.rows[j]
                IN  /\ emp.id = row.id
                    /\ emp.name = row.name
                    /\ emp.weekly_pay = row.weekly_pay
                    /\ emp.year_to_date_pay = row.year_to_date_pay]_vars

====
